---- MODULE Spec2Model ----
(***************************************************************************)
(* SpreadsAdjustedOnVolatility (scripts/spreads_adjusted_on_volatility_    *)
(* script.py): a per-tick callback that rewrites the bid and ask spreads   *)
(* of the host's pmm_parameters from two rolling volatility statistics     *)
(* and the Sydney hour of day.                                             *)
(*                                                                         *)
(* Decimal values are integers in units of 0.00001 (0.8% = 800,            *)
(* 0.25% = 250, 0.20% = 200); every Decimal the model handles is an exact  *)
(* multiple of that unit, so Decimal +, -, max and == are Integer ones.    *)
(* An optional value is a sequence: None is <<>>, a present v is <<v>>.    *)
(***************************************************************************)
EXTENDS Integers, Sequences, FiniteSets, TLC

VARIABLES
    bid_spread,                  \* pmm_parameters.bid_spread
    ask_spread,                  \* pmm_parameters.ask_spread
    original_bid_spread,         \* self.original_bid_spread
    original_ask_spread,         \* self.original_ask_spread
    ticks,                       \* self.ticks
    hour_of_day,                 \* self.hour_of_day
    log_lines,                   \* number of lines in logs/logs_script_out.txt
    notifications,               \* number of notify() messages sent
    samples,                     \* host: 0 no statistic yet, 1 short-term only, 2 both
    calls,                       \* number of on_tick invocations so far
    outcome,                     \* where the last on_tick call returned
    avg_short_volatility,        \* locals of the last on_tick call
    median_long_volatility,
    spread_adjustment,
    overnight_spread_adjustment,
    new_bid_spread,
    new_ask_spread

vars == <<bid_spread, ask_spread, original_bid_spread, original_ask_spread, ticks,
          hour_of_day, log_lines, notifications, samples, calls, outcome,
          avg_short_volatility, median_long_volatility, spread_adjustment,
          overnight_spread_adjustment, new_bid_spread, new_ask_spread>>

None == <<>>
Some(v) == <<v>>
Val(o) == o[1]

Max(a, b) == IF a >= b THEN a ELSE b
Abs(a) == IF a >= 0 THEN a ELSE -a

(* ------------------------------ bounds -------------------------------- *)
\* on_tick calls explored by Spec
MaxTicks == 4
\* on_tick calls explored by SpecLong beyond the notification tick
ExtraTicks == 2
\* log lines after which SpecLong stops
MaxLog == 2

(* ------------------------- program constants -------------------------- *)
interval == 10
short_period == 5
long_period == 900
\* Decimal("0.0025")
StepSize == 250
\* Decimal("0.0020")
OvernightWidening == 200
\* the tick whose call announces that the averages are available
NotifyTick == (interval * long_period) + 1

(* ------------------------------ inputs -------------------------------- *)
\* pmm_parameters as configured by the host: <<bid_spread, ask_spread>>
InitSpreads == {<<800, 800>>, <<800, 1000>>}
ShortVols == {1000, 1500, 1625, 2600}
LongVols == {1500}
Hours == 0..23
\* the reduced inputs of SpecLong
LongRunSpreads == InitSpreads
LongRunShortVols == {1000, 1625, 2600}
LongRunHours == {7, 8}

(* ------------------------- host collaborators ------------------------- *)
\* ScriptBase.round_by_step: the multiples of step nearest to a_number
\* (two of them when a_number lies halfway).
round_by_step(a_number, step) ==
    LET lo == (a_number \div step) * step
        hi == lo + step
    IN  IF a_number - lo < hi - a_number THEN {lo}
        ELSE IF a_number - lo > hi - a_number THEN {hi}
        ELSE {lo, hi}

\* ScriptBase.avg_price_volatility(interval, short_period): absent until
\* enough samples have accumulated, a number afterwards.
AvgPriceVolatility(vols) == IF samples >= 1 THEN {Some(v) : v \in vols} ELSE {None}

\* ScriptBase.median_price_volatility(interval, long_period)
MedianPriceVolatility(vols) == IF samples >= 2 THEN {Some(v) : v \in vols} ELSE {None}

\* The host collects mid prices between ticks; a statistic becomes available.
Accumulate ==
    /\ samples < 2
    /\ samples' = samples + 1
    /\ UNCHANGED <<bid_spread, ask_spread, original_bid_spread, original_ask_spread,
                   ticks, hour_of_day, log_lines, notifications, calls, outcome,
                   avg_short_volatility, median_long_volatility, spread_adjustment,
                   overnight_spread_adjustment, new_bid_spread, new_ask_spread>>

(* ------------------------------ on_tick ------------------------------- *)
\* lines 40-42: the originals are captured once
\* faulty variant: the originals follow the current parameters on every call
KeepOriginalMut(original, current) == Some(current)
KeepOriginal(original, current) == IF original = None THEN Some(current) ELSE original

\* line 55
IsAbsent(short, long) == short = None \/ long = None

\* line 58
\* faulty variant: >= in place of ==
IsNotifyTickMut(t) == t >= NotifyTick
IsNotifyTick(t) == t = NotifyTick

\* faulty variant: lines 55-60 checked in the wrong order
ReturnPointMut(short, long, t) ==
    IF IsNotifyTick(t) THEN "notified"
    ELSE IF IsAbsent(short, long) THEN "absent"
    ELSE "computed"
\* lines 55-60: where on_tick goes after the tick is counted
ReturnPoint(short, long, t) ==
    IF IsAbsent(short, long) THEN "absent"
    ELSE IF IsNotifyTick(t) THEN "notified"
    ELSE "computed"

\* line 63
\* faulty variant: the operands swapped
DeltaMut(short, long) == long - short
Delta(short, long) == short - long

\* lines 66-74
\* faulty variant: hour 21 counted as night
OvernightSpreadAdjustmentMut(hour) ==
    IF hour >= 21 \/ hour < 8 THEN OvernightWidening ELSE 0
OvernightSpreadAdjustment(hour) ==
    IF hour > 21 \/ hour < 8 THEN OvernightWidening ELSE 0

\* lines 76-77
NewBidSpread(orig_bid, adj, overnight) == orig_bid + adj + overnight
\* faulty variant: the ask spread without the overnight adjustment
NewAskSpreadMut(orig_ask, adj, overnight) == orig_ask + adj
NewAskSpread(orig_ask, adj, overnight) == orig_ask + adj + overnight

\* lines 80-81
\* faulty variant: no clamp
ClampBidMut(orig_bid, new_bid) == new_bid
ClampBid(orig_bid, new_bid) == Max(orig_bid, new_bid)
ClampAsk(orig_ask, new_ask) == Max(orig_ask, new_ask)

\* line 84
\* faulty variant: a clamped spread counted as no adjustment
NoAdjustmentsMut(new_bid, orig_bid) == new_bid <= orig_bid
NoAdjustments(new_bid, orig_bid) == new_bid = orig_bid

\* line 51
NextTicks(t) == t + 1

\* lines 96-98
log_to_file == log_lines' = log_lines + 1

\* line 59
notify == notifications' = notifications + 1

\* lines 100-102
on_status == <<hour_of_day, ticks>>

\* the early returns of lines 56 and 60 leave everything below untouched
NoLocals ==
    /\ spread_adjustment' = None
    /\ overnight_spread_adjustment' = None
    /\ new_bid_spread' = None
    /\ new_ask_spread' = None

on_tick(short, long, hour) ==
    /\ original_bid_spread' = KeepOriginal(original_bid_spread, bid_spread)
    /\ original_ask_spread' =
           IF original_bid_spread = None THEN Some(ask_spread) ELSE original_ask_spread
    /\ avg_short_volatility' = short
    /\ median_long_volatility' = long
    /\ ticks' = NextTicks(ticks)
    /\ calls' = calls + 1
    /\ UNCHANGED samples
    /\ IF ReturnPoint(short, long, ticks') = "absent"
       THEN /\ outcome' = "absent"
            /\ NoLocals
            /\ UNCHANGED <<bid_spread, ask_spread, hour_of_day, log_lines, notifications>>
       ELSE IF ReturnPoint(short, long, ticks') = "notified"
       THEN /\ outcome' = "notified"
            /\ notify
            /\ NoLocals
            /\ UNCHANGED <<bid_spread, ask_spread, hour_of_day, log_lines>>
       ELSE \E adj \in round_by_step(Delta(Val(short), Val(long)), StepSize) :
            LET overnight == OvernightSpreadAdjustment(hour)
                new_bid == NewBidSpread(Val(original_bid_spread'), adj, overnight)
                new_ask == NewAskSpread(Val(original_ask_spread'), adj, overnight)
            IN  /\ spread_adjustment' = Some(adj)
                /\ hour_of_day' = hour
                /\ overnight_spread_adjustment' = Some(overnight)
                /\ new_bid_spread' = Some(new_bid)
                /\ new_ask_spread' = Some(new_ask)
                /\ bid_spread' = ClampBid(Val(original_bid_spread'), new_bid)
                /\ ask_spread' = ClampAsk(Val(original_ask_spread'), new_ask)
                /\ UNCHANGED notifications
                /\ IF NoAdjustments(new_bid, Val(original_bid_spread'))
                   THEN /\ outcome' = "unlogged"
                        /\ UNCHANGED log_lines
                   ELSE /\ outcome' = "logged"
                        /\ log_to_file

\* The host calls on_tick with the statistics and the clock of the moment.
Tick(shortVols, longVols, hours) ==
    \E short \in AvgPriceVolatility(shortVols), long \in MedianPriceVolatility(longVols),
       hour \in hours :
        on_tick(short, long, hour)

(* --------------------------- specifications --------------------------- *)
\* state after __init__, with the host's parameters in place
InitWith(spreads) ==
    /\ \E s \in spreads : bid_spread = s[1] /\ ask_spread = s[2]
    /\ original_bid_spread = None
    /\ original_ask_spread = None
    /\ ticks = 0
    /\ hour_of_day = 0
    /\ log_lines = 0
    /\ notifications = 0
    /\ samples = 0
    /\ calls = 0
    /\ outcome = "constructed"
    /\ avg_short_volatility = None
    /\ median_long_volatility = None
    /\ spread_adjustment = None
    /\ overnight_spread_adjustment = None
    /\ new_bid_spread = None
    /\ new_ask_spread = None

Init == InitWith(InitSpreads)

TickShort == calls < MaxTicks /\ Tick(ShortVols, LongVols, Hours)

Next == Accumulate \/ TickShort

Spec == Init /\ [][Next]_vars

\* the long run: few inputs, enough ticks to pass the notification tick
InitLong == InitWith(LongRunSpreads)

TickLong ==
    /\ calls < NotifyTick + ExtraTicks
    /\ log_lines < MaxLog
    /\ Tick(LongRunShortVols, LongVols, LongRunHours)

NextLong == Accumulate \/ TickLong

SpecLong == InitLong /\ [][NextLong]_vars

(* =============================== claims =============================== *)
Computed == outcome \in {"logged", "unlogged"}
Captured == original_bid_spread # None /\ original_ask_spread # None
\* the step is an on_tick call
OnTickStep == calls' = calls + 1

\* C1: once the originals are captured, bid_spread is never below
\* original_bid_spread and ask_spread never below original_ask_spread,
\* whatever the volatility inputs and the hour of the ticks.
C1_NeverBelowOriginal ==
    Captured =>
        /\ bid_spread >= Val(original_bid_spread)
        /\ ask_spread >= Val(original_ask_spread)

\* C1 witness: a tick with the short-term average below the median computed a
\* spread under the original and the parameter was clamped to the original.
C1_Witness ==
    /\ Computed
    /\ Val(avg_short_volatility) < Val(median_long_volatility)
    /\ Val(new_bid_spread) < Val(original_bid_spread)
    /\ bid_spread = Val(original_bid_spread)
    /\ ask_spread = Val(original_ask_spread)

\* C2: an on_tick call with an absent short-term average or an absent
\* long-term median leaves both spreads, the log and the notifications as
\* they were; it only captures the originals (if not yet captured) and adds
\* one to ticks.
C2_AbsentTickOnlyCounts ==
    [][(OnTickStep /\ (avg_short_volatility' = None \/ median_long_volatility' = None)) =>
          /\ bid_spread' = bid_spread
          /\ ask_spread' = ask_spread
          /\ log_lines' = log_lines
          /\ notifications' = notifications
          /\ hour_of_day' = hour_of_day
          /\ ticks' = ticks + 1
          /\ original_bid_spread' =
                 IF original_bid_spread = None THEN Some(bid_spread) ELSE original_bid_spread
          /\ original_ask_spread' =
                 IF original_ask_spread = None THEN Some(ask_spread) ELSE original_ask_spread
      ]_vars

\* C2 witness: the call that reached the notification tick had the short-term
\* average but no median, and returned without notifying.
C2_Witness ==
    /\ outcome = "absent"
    /\ ticks = 9001
    /\ avg_short_volatility # None
    /\ median_long_volatility = None
    /\ notifications = 0
    /\ log_lines = 0

\* C3: on every call that computes new spreads the overnight adjustment is
\* 0.0020 when the hour of day is in 0..7 or 22..23 and 0 when it is in 8..21,
\* and it is added to both new spreads.
C3_OvernightOutsideEightToTwentyOne ==
    Computed =>
        /\ overnight_spread_adjustment =
               Some(IF hour_of_day \in 8..21 THEN 0 ELSE 200)
        /\ Val(new_bid_spread) = Val(original_bid_spread) + Val(spread_adjustment)
                                     + Val(overnight_spread_adjustment)
        /\ Val(new_ask_spread) = Val(original_ask_spread) + Val(spread_adjustment)
                                     + Val(overnight_spread_adjustment)

\* C3 witness: a call at hour 21, the last hour of the day range, computed
\* spreads with no overnight adjustment while the volatility widened them.
C3_Witness ==
    /\ Computed
    /\ hour_of_day = 21
    /\ overnight_spread_adjustment = Some(0)
    /\ Val(spread_adjustment) > 0
    /\ bid_spread = Val(original_bid_spread) + Val(spread_adjustment)

C5_SpreadIsOriginalPlusDelta ==
    (Computed /\ Val(avg_short_volatility) > Val(median_long_volatility)) =>
        /\ bid_spread = Val(original_bid_spread)
                            + (Val(avg_short_volatility) - Val(median_long_volatility))
        /\ ask_spread = Val(original_ask_spread)
                            + (Val(avg_short_volatility) - Val(median_long_volatility))

\* C6 as stated: with the spreads widened by earlier ticks, a call in which the
\* short-term average equals the long-term median sets both spreads back to
\* exactly their originals.
C6_BackToOriginalWhenVolatilityDrops ==
    [][(/\ OnTickStep
        /\ Captured
        /\ bid_spread > Val(original_bid_spread)
        /\ avg_short_volatility' # None
        /\ avg_short_volatility' = median_long_volatility') =>
          /\ bid_spread' = Val(original_bid_spread)
          /\ ask_spread' = Val(original_ask_spread)
      ]_vars

C8_TicksCountCallsAndNotifyOnce ==
    /\ [](ticks = calls)
    /\ [](notifications <= 1)
    /\ [][OnTickStep => ticks' = ticks + 1]_vars
    /\ [][notifications' # notifications =>
            /\ OnTickStep
            /\ ticks' = 9001
            /\ avg_short_volatility' # None
            /\ median_long_volatility' # None
            /\ bid_spread' = bid_spread
            /\ ask_spread' = ask_spread
            /\ log_lines' = log_lines
         ]_vars

\* C8 witness: the call of tick 9001 has just notified, and the spreads that
\* earlier calls had widened and the log they had written are as they left them.
C8_Witness ==
    /\ outcome = "notified"
    /\ notifications = 1
    /\ ticks = 9001
    /\ calls = 9001
    /\ bid_spread > Val(original_bid_spread)
    /\ log_lines >= 1

\* C9: the first on_tick call captures the originals from pmm_parameters, also
\* with the volatility values absent, and no later call changes them.
C9_OriginalsCapturedOnceOnFirstCall ==
    /\ [](calls >= 1 => Captured)
    /\ [][(OnTickStep /\ calls = 0) =>
            /\ original_bid_spread' = Some(bid_spread)
            /\ original_ask_spread' = Some(ask_spread)
         ]_vars
    /\ [][original_bid_spread # None =>
            /\ original_bid_spread' = original_bid_spread
            /\ original_ask_spread' = original_ask_spread
         ]_vars

\* C9 witness: a call after the first has written widened spreads into
\* pmm_parameters, and the originals differ from them.
C9_Witness ==
    /\ calls >= 3
    /\ Computed
    /\ Captured
    /\ bid_spread > Val(original_bid_spread)
    /\ ask_spread > Val(original_ask_spread)

\* C10: after the first on_tick call, bid_spread - original_bid_spread equals
\* ask_spread - original_ask_spread, also with different originals and also
\* when the computed spreads were clamped.
C10_BidAndAskWidenedAlike ==
    (calls >= 1) =>
        bid_spread - Val(original_bid_spread) = ask_spread - Val(original_ask_spread)

\* C10 witness: with different original bid and ask spreads, a night call has
\* widened both.
C10_Witness ==
    /\ Computed
    /\ Val(original_bid_spread) # Val(original_ask_spread)
    /\ overnight_spread_adjustment = Some(200)
    /\ bid_spread > Val(original_bid_spread)

====
